---- MODULE Spec2Model ----
(***************************************************************************)
(* Model of the alerting engine of defi-monitor (src/src/alerts.py):       *)
(* AlertManager.check_alerts, the threshold detector that compares each    *)
(* snapshot of a batch with the snapshot last seen for the same protocol,  *)
(* and AlertManager.send_alerts, the dispatcher that fans a batch of       *)
(* alerts out to the console, a Discord webhook and e-mail; and of the     *)
(* fetch layer that produces the snapshots: DataFetcher.fetch_all_protocols *)
(* (src/src/data_fetcher.py) over the _make_request of the CoinGecko and   *)
(* DefiLlama clients (src/src/coingecko.py, src/src/defi_llama.py).        *)
(*                                                                         *)
(* Numbers.  The code computes with Python floats; the model computes the  *)
(* same expressions in exact arithmetic over small integers, so            *)
(* abs((c - p) / p * 100) >= t is evaluated as 100 * |c - p| >= t * |p|.   *)
(* An optional number (None in the code) is the empty tuple, a present     *)
(* number v is the tuple <<v>>.                                            *)
(***************************************************************************)
EXTENDS Integers, Sequences, FiniteSets, TLC

VARIABLES
    enabled,              \* self.enabled
    price_threshold,      \* self.price_threshold
    tvl_threshold,        \* self.tvl_threshold
    apy_threshold,        \* self.apy_threshold
    alerts_config,        \* the channel switches of self.alerts_config
    discord_webhook_url,  \* TRUE iff self.discord_webhook_url is non-empty
    email_to,             \* TRUE iff self.email_to is non-empty
    email_from,           \* TRUE iff self.email_from is non-empty
    smtp_username,        \* TRUE iff self.smtp_username is non-empty
    smtp_password,        \* TRUE iff self.smtp_password is non-empty
    previous_data,        \* self.previous_data: protocol name -> snapshot
    op,                   \* the call made last: "start", "input", "check_alerts", "send_alerts"
    current_data,         \* the batch the caller assembles and passes to check_alerts
    entry_data,           \* previous_data as it was when the last check_alerts call started
    alerts,               \* the list check_alerts returned, or the list passed to send_alerts
    raised,               \* the exception that escaped the last call, "none" if it returned
    repeated,             \* the last check_alerts call directly followed one on the same batch
    count,                \* the value send_alerts returned
    channel,              \* what the last send_alerts call did on each channel
    discord_posts,        \* the requests.post calls the last send_alerts call made
    attempts,             \* how often the last send_alerts call called each channel
    protocols,            \* the list of protocol configurations passed to fetch_all_protocols
    fetch_pc,             \* where fetch_all_protocols is: "loop", "in_request", "returned", "raised"
    fetch_i,              \* the protocols the loop of fetch_all_protocols has gone through
    results,              \* the list results of fetch_all_protocols
    cg_requests,          \* the HTTP requests of the last CoinGeckoAPI._make_request call
    llama_requests,       \* the HTTP requests of the last DefiLlamaAPI._make_request call
    failed,               \* the tvl and price requests of the last pass that failed upstream
    monitor_i,            \* the protocols the loop of get_all_protocols_data has gone through
    all_data,             \* the list all_data of DeFiMonitor.get_all_protocols_data
    report,               \* what the last generate_text_report call put into its report
    last_seen,            \* history: protocol name -> its snapshot in the last batch that had it
    missed,               \* history: protocol name -> the passes since that batch
    client,               \* the API client: "coingecko" or "defillama"
    rate_limit,           \* self.rate_limit
    client_pc,            \* where the client is: "idle", "get" (in session.get), "retry"
    time_since_last,      \* time.time() - self.last_request_time, up to min_request_interval
    since_get,            \* the time since session.get was last called, None before the first
    spacing,              \* the time between the last two session.get calls
    client_response       \* what the last session.get call met

config_vars == <<enabled, price_threshold, tvl_threshold, apy_threshold, alerts_config,
                 discord_webhook_url, email_to, email_from, smtp_username, smtp_password>>

vars == <<enabled, price_threshold, tvl_threshold, apy_threshold, alerts_config,
          discord_webhook_url, email_to, email_from, smtp_username, smtp_password,
          previous_data, op, current_data, entry_data, alerts, raised, repeated,
          count, channel, discord_posts, attempts,
          protocols, fetch_pc, fetch_i, results, cg_requests, llama_requests,
          failed, monitor_i, all_data, report, last_seen, missed,
          client, rate_limit, client_pc, time_since_last, since_get, spacing, client_response>>

client_vars == <<client, rate_limit, client_pc, time_since_last, since_get, spacing,
                 client_response>>

history_vars == <<last_seen, missed>>

call_vars == <<previous_data, op, current_data, entry_data, alerts, raised, repeated,
               count, channel, discord_posts, attempts>>

fetch_vars == <<protocols, fetch_pc, fetch_i, results, cg_requests, llama_requests,
                failed, monitor_i, all_data>>

----------------------------------------------------------------------------
(* Bounds and input domains *)

\* longest batch of snapshots passed to check_alerts
MaxBatch == 2

\* longest list of alerts passed to send_alerts
MaxAlerts == 2

\* protocol identifiers (the 'name' key of a snapshot)
Protocols == {"aave", "lido"}

\* the 'name' of a snapshot that has no 'name' key
NoName == "<no name key>"

\* longest list of protocol configurations passed to fetch_all_protocols
MaxProtocols == 2

\* the HTTP requests of one _make_request call the model follows
MaxRequests == 3

\* the passes without a protocol that the history counts
MaxMissed == 2

\* the longest the caller waits between two _make_request calls, in fifths of a second
MaxIdle == 2

\* the longest a request takes to be answered or to fail, in fifths of a second
MaxLatency == 2

\* None
None == <<>>

Some(v) == <<v>>

\* the metric readings a snapshot is drawn from: price, tvl, apy
Readings ==
    { [price |-> Some(100), tvl |-> Some(1000), apy |-> Some(3)],
      [price |-> Some(105), tvl |-> Some(1000), apy |-> Some(4)],
      [price |-> Some(120), tvl |-> Some(750),  apy |-> Some(9)],
      [price |-> Some(0),   tvl |-> Some(0),    apy |-> Some(0)],
      [price |-> None,      tvl |-> None,       apy |-> None] }

Snapshot(n, r) == [name |-> n, price |-> r.price, tvl |-> r.tvl, apy |-> r.apy]

\* the snapshots a caller can append to a batch; one of them lacks its 'name' key
Snapshots ==
    { Snapshot(n, r) : n \in Protocols, r \in Readings }
        \cup { Snapshot(NoName, [price |-> Some(100), tvl |-> Some(1000), apy |-> Some(3)]) }

\* the detector configurations: the defaults, another set of thresholds,
\* thresholds of zero, and alerting switched off
DefaultPriceThreshold == 5

DefaultTvlThreshold == 10

DefaultApyThreshold == 1

DetectorConfigs ==
    { [enabled |-> TRUE,  price |-> DefaultPriceThreshold, tvl |-> DefaultTvlThreshold,
       apy |-> DefaultApyThreshold],
      [enabled |-> TRUE,  price |-> 20, tvl |-> 25, apy |-> 2],
      [enabled |-> TRUE,  price |-> 0,  tvl |-> 0,  apy |-> 0],
      [enabled |-> FALSE, price |-> DefaultPriceThreshold, tvl |-> DefaultTvlThreshold,
       apy |-> DefaultApyThreshold] }

----------------------------------------------------------------------------
(* Arithmetic *)

Abs(x) == IF x < 0 THEN -x ELSE x

\* Python truthiness of an optional number: None and 0 are false
Truthy(x) == x # None /\ x[1] # 0

\* abs(((curr - prev) / prev) * 100) >= bound, for prev # 0
PercentAtLeast(prev, curr, bound) == 100 * Abs(curr - prev) >= bound * Abs(prev)

----------------------------------------------------------------------------
(* The three per-metric checks.  Each returns [error, out]: error is TRUE  *)
(* when the division raises ZeroDivisionError, out is the list of the      *)
(* alert it returns (empty for None).                                      *)

\* the price change at which a price alert becomes HIGH
PriceHighPercent == 10

\* the tvl change at which a tvl alert becomes HIGH
TvlHighPercent == 20

NoAlert == [error |-> FALSE, out |-> <<>>]

DivisionError == [error |-> TRUE, out |-> <<>>]

\* an alert labelled INCREASED unless the change is positive
AlertLabelsSwapped(type, name, severity, change_positive, prev, curr) ==
    [type |-> type, protocol |-> name, severity |-> severity,
     direction |-> IF change_positive THEN "DECREASED" ELSE "INCREASED",
     previous |-> prev, current |-> curr]

Alert(type, name, severity, change_positive, prev, curr) ==
    [type |-> type, protocol |-> name, severity |-> severity,
     direction |-> IF change_positive THEN "INCREASED" ELSE "DECREASED",
     previous |-> prev, current |-> curr]

\* _check_price_change with the previous price tested for None only
_check_price_change_NoneOnly(name, prev, curr) ==
    IF prev.price # None /\ Truthy(curr.price)
    THEN LET p == prev.price[1]
             c == curr.price[1]
         IN IF p = 0 THEN DivisionError
            ELSE IF PercentAtLeast(p, c, price_threshold)
                 THEN [error |-> FALSE,
                       out |-> << Alert("price", name,
                                        IF PercentAtLeast(p, c, PriceHighPercent)
                                        THEN "HIGH" ELSE "MEDIUM",
                                        (c - p) * p > 0, p, c) >>]
                 ELSE NoAlert
    ELSE NoAlert

_check_price_change(name, prev, curr) ==
    IF Truthy(prev.price) /\ Truthy(curr.price)
    THEN LET p == prev.price[1]
             c == curr.price[1]
         IN IF p = 0 THEN DivisionError
            ELSE IF PercentAtLeast(p, c, price_threshold)
                 THEN [error |-> FALSE,
                       out |-> << Alert("price", name,
                                        IF PercentAtLeast(p, c, PriceHighPercent)
                                        THEN "HIGH" ELSE "MEDIUM",
                                        (c - p) * p > 0, p, c) >>]
                 ELSE NoAlert
    ELSE NoAlert

_check_tvl_change(name, prev, curr) ==
    IF Truthy(prev.tvl) /\ Truthy(curr.tvl)
    THEN LET p == prev.tvl[1]
             c == curr.tvl[1]
         IN IF p = 0 THEN DivisionError
            ELSE IF PercentAtLeast(p, c, tvl_threshold)
                 THEN [error |-> FALSE,
                       out |-> << Alert("tvl", name,
                                        IF PercentAtLeast(p, c, TvlHighPercent)
                                        THEN "HIGH" ELSE "MEDIUM",
                                        (c - p) * p > 0, p, c) >>]
                 ELSE NoAlert
    ELSE NoAlert

\* _check_apy_change with the escalation of the other two checks
_check_apy_change_Escalating(name, prev, curr) ==
    IF Truthy(prev.apy) /\ Truthy(curr.apy)
    THEN LET p == prev.apy[1]
             c == curr.apy[1]
         IN IF Abs(c - p) >= apy_threshold
            THEN [error |-> FALSE,
                  out |-> << Alert("apy", name,
                                   IF Abs(c - p) >= 2 * apy_threshold
                                   THEN "HIGH" ELSE "MEDIUM",
                                   c - p > 0, p, c) >>]
            ELSE NoAlert
    ELSE NoAlert

_check_apy_change(name, prev, curr) ==
    IF Truthy(prev.apy) /\ Truthy(curr.apy)
    THEN LET p == prev.apy[1]
             c == curr.apy[1]
         IN IF Abs(c - p) >= apy_threshold
            THEN [error |-> FALSE,
                  out |-> << Alert("apy", name, "MEDIUM", c - p > 0, p, c) >>]
            ELSE NoAlert
    ELSE NoAlert

NoChannel == [console |-> "NotAttempted", discord |-> "NotAttempted",
              email |-> "NotAttempted"]

NoAttempts == [console |-> 0, discord |-> 0, email |-> 0]

----------------------------------------------------------------------------
(* send_alerts.  The outcome of the I/O is an input of the call:           *)
(* console_ok says whether the writes to the console succeed, fail_at is   *)
(* the index of the first alert whose webhook post fails or gets no answer *)
(* within its timeout (0 if none does), email_io is what the SMTP session  *)
(* meets: "ok", "error" (the server refuses or the connection breaks) or   *)
(* "silent" (the remote end never answers).                                *)

\* the lists of alerts a caller passes to send_alerts: one list of each length,
\* HIGH and MEDIUM alerts in turn (send_alerts reads the length of the list and
\* formats each entry)
AlertLists ==
    { [i \in 1..n |-> IF i % 2 = 1
                      THEN Alert("price", "aave", "HIGH", TRUE, 100, 120)
                      ELSE Alert("apy", "lido", "MEDIUM", FALSE, 4, 3)] : n \in 0..MaxAlerts }

EmailOutcomes == {"ok", "error", "silent"}

\* print raises when the write fails; nothing in send_alerts catches it
_send_console_alerts(as, console_ok) ==
    IF console_ok THEN [raised |-> "none", state |-> "Delivered"]
    ELSE [raised |-> "OSError", state |-> "Failed"]

\* one post per alert, every post a second one when it fails
_send_discord_alerts_AllPosts(as, fail_at) ==
    IF fail_at = 0
    THEN [result |-> TRUE, state |-> "Delivered", posts |-> Len(as)]
    ELSE [result |-> FALSE, state |-> "Failed", posts |-> Len(as) + 1]

\* one post per alert, each with timeout=10; the first failing post ends the
\* loop in the except clause
_send_discord_alerts(as, fail_at) ==
    IF fail_at = 0
    THEN [result |-> TRUE, state |-> "Delivered", posts |-> Len(as)]
    ELSE [result |-> FALSE, state |-> "Failed", posts |-> fail_at]

\* _send_email_alerts without the test of the credentials
_send_email_alerts_NoTest(as, email_io) ==
    IF email_io = "ok" THEN [result |-> TRUE, state |-> "Delivered"]
    ELSE IF email_io = "error" THEN [result |-> FALSE, state |-> "Failed"]
    ELSE [result |-> FALSE, state |-> "InProgress"]

\* one message with all alerts, after the check of the credentials; the SMTP
\* session is opened without a timeout, so a silent remote end blocks it forever
_send_email_alerts(as, email_io) ==
    IF ~(email_to /\ email_from /\ smtp_username /\ smtp_password)
    THEN [result |-> FALSE, state |-> "NotConfigured"]
    ELSE IF email_io = "ok" THEN [result |-> TRUE, state |-> "Delivered"]
    ELSE IF email_io = "error" THEN [result |-> FALSE, state |-> "Failed"]
    ELSE [result |-> FALSE, state |-> "InProgress"]

\* a counter of the events delivered by at least one channel
DeliveredCountOnce(n, console, discord, email) ==
    IF console.state = "Delivered" \/ discord.result \/ email.result THEN n ELSE 0

\* count after the three channels: len(alerts) for the console once it was
\* written, and for the webhook and the e-mail when they returned True
DeliveredCount(n, console, discord, email) ==
    (IF console.state = "Delivered" THEN n ELSE 0)
        + (IF discord.result THEN n ELSE 0)
        + (IF email.result THEN n ELSE 0)

\* the three channels, the webhook tried a second time when it failed
SendChannelsRetry(as, console_ok, fail_at, email_io) ==
    LET console == IF alerts_config.console
                   THEN _send_console_alerts(as, console_ok)
                   ELSE [raised |-> "none", state |-> "NotAttempted"]
        discord == IF alerts_config.discord_webhook /\ discord_webhook_url
                   THEN _send_discord_alerts(as, fail_at)
                   ELSE [result |-> FALSE, state |-> "NotAttempted", posts |-> 0]
        email == IF alerts_config.email /\ email_to
                 THEN _send_email_alerts(as, email_io)
                 ELSE [result |-> FALSE, state |-> "NotAttempted"]
    IN IF console.raised # "none"
       THEN [count |-> 0, raised |-> console.raised,
             channel |-> [NoChannel EXCEPT !.console = console.state],
             discord_posts |-> 0,
             attempts |-> [console |-> 1, discord |-> 0, email |-> 0]]
       ELSE [count |-> IF email.state = "InProgress" THEN 0
                       ELSE DeliveredCount(Len(as), console, discord, email),
             raised |-> "none",
             channel |-> [console |-> console.state, discord |-> discord.state,
                          email |-> email.state],
             discord_posts |-> discord.posts + (IF discord.state = "Failed"
                                                THEN discord.posts ELSE 0),
             attempts |-> [console |-> IF alerts_config.console THEN 1 ELSE 0,
                           discord |-> IF discord.state = "NotAttempted" THEN 0
                                       ELSE IF discord.state = "Failed" THEN 2 ELSE 1,
                           email |-> IF alerts_config.email /\ email_to THEN 1 ELSE 0]]

\* send_alerts for a non-empty list: the console, then the webhook, then the
\* e-mail, each called once if it is switched on
SendChannels(as, console_ok, fail_at, email_io) ==
    LET console == IF alerts_config.console
                   THEN _send_console_alerts(as, console_ok)
                   ELSE [raised |-> "none", state |-> "NotAttempted"]
        discord == IF alerts_config.discord_webhook /\ discord_webhook_url
                   THEN _send_discord_alerts(as, fail_at)
                   ELSE [result |-> FALSE, state |-> "NotAttempted", posts |-> 0]
        email == IF alerts_config.email /\ email_to
                 THEN _send_email_alerts(as, email_io)
                 ELSE [result |-> FALSE, state |-> "NotAttempted"]
    IN IF console.raised # "none"
       THEN [count |-> 0, raised |-> console.raised,
             channel |-> [NoChannel EXCEPT !.console = console.state],
             discord_posts |-> 0,
             attempts |-> [console |-> 1, discord |-> 0, email |-> 0]]
       ELSE [count |-> IF email.state = "InProgress" THEN 0
                       ELSE DeliveredCount(Len(as), console, discord, email),
             raised |-> "none",
             channel |-> [console |-> console.state, discord |-> discord.state,
                          email |-> email.state],
             discord_posts |-> discord.posts,
             attempts |-> [console |-> IF alerts_config.console THEN 1 ELSE 0,
                           discord |-> IF alerts_config.discord_webhook
                                          /\ discord_webhook_url THEN 1 ELSE 0,
                           email |-> IF alerts_config.email /\ email_to THEN 1 ELSE 0]]

\* send_alerts delivering only for a manager whose alerts.enabled is set
send_alerts_OnlyWhenEnabled(as, console_ok, fail_at, email_io) ==
    IF as = <<>> \/ ~enabled
    THEN [count |-> 0, raised |-> "none", channel |-> NoChannel, discord_posts |-> 0,
          attempts |-> NoAttempts]
    ELSE SendChannels(as, console_ok, fail_at, email_io)

\* send_alerts without its early return for an empty list
send_alerts_NoEarlyReturn(as, console_ok, fail_at, email_io) ==
    SendChannels(as, console_ok, fail_at, email_io)

send_alerts(as, console_ok, fail_at, email_io) ==
    IF as = <<>>
    THEN [count |-> 0, raised |-> "none", channel |-> NoChannel, discord_posts |-> 0,
          attempts |-> NoAttempts]
    ELSE SendChannels(as, console_ok, fail_at, email_io)

----------------------------------------------------------------------------
(* check_alerts *)

\* previous_data[name] = protocol_data
Store(pd, name, protocol_data) ==
    [n \in (DOMAIN pd) \cup {name} |-> IF n = name THEN protocol_data ELSE pd[n]]

\* the first loop without its continue: a first-seen snapshot is stored and then
\* compared with itself
RECURSIVE CompareLoopNoContinue(_, _, _, _)
CompareLoopNoContinue(data, i, pd, acc) ==
    IF i > Len(data)
    THEN [previous_data |-> pd, alerts |-> acc, raised |-> "none"]
    ELSE LET protocol_data == data[i]
             protocol_name == protocol_data.name
         IN IF protocol_name = NoName
            THEN [previous_data |-> pd, alerts |-> <<>>, raised |-> "KeyError"]
            ELSE LET seen == IF protocol_name \notin DOMAIN pd
                             THEN Store(pd, protocol_name, protocol_data) ELSE pd
                     prev_data == seen[protocol_name]
                     price == _check_price_change(protocol_name, prev_data, protocol_data)
                     tvl == _check_tvl_change(protocol_name, prev_data, protocol_data)
                     apy == _check_apy_change(protocol_name, prev_data, protocol_data)
                 IN IF price.error \/ (tvl.error \/ apy.error)
                    THEN [previous_data |-> seen, alerts |-> <<>>,
                          raised |-> "ZeroDivisionError"]
                    ELSE CompareLoopNoContinue(data, i + 1, seen,
                                               acc \o price.out \o tvl.out \o apy.out)

\* the first loop appending only the first alert of a protocol
RECURSIVE CompareLoopFirstAlertOnly(_, _, _, _)
CompareLoopFirstAlertOnly(data, i, pd, acc) ==
    IF i > Len(data)
    THEN [previous_data |-> pd, alerts |-> acc, raised |-> "none"]
    ELSE LET protocol_data == data[i]
             protocol_name == protocol_data.name
         IN IF protocol_name = NoName
            THEN [previous_data |-> pd, alerts |-> <<>>, raised |-> "KeyError"]
            ELSE IF protocol_name \notin DOMAIN pd
            THEN CompareLoopFirstAlertOnly(data, i + 1,
                                           Store(pd, protocol_name, protocol_data), acc)
            ELSE LET prev_data == pd[protocol_name]
                     price == _check_price_change(protocol_name, prev_data, protocol_data)
                     tvl == _check_tvl_change(protocol_name, prev_data, protocol_data)
                     apy == _check_apy_change(protocol_name, prev_data, protocol_data)
                 IN CompareLoopFirstAlertOnly(data, i + 1, pd,
                        acc \o (IF price.out # <<>> THEN price.out
                                ELSE IF tvl.out # <<>> THEN tvl.out ELSE apy.out))

\* the first loop comparing a first-seen snapshot with the first baseline there is
RECURSIVE CompareLoopAnyBaseline(_, _, _, _)
CompareLoopAnyBaseline(data, i, pd, acc) ==
    IF i > Len(data)
    THEN [previous_data |-> pd, alerts |-> acc, raised |-> "none"]
    ELSE LET protocol_data == data[i]
             protocol_name == protocol_data.name
         IN IF protocol_name = NoName
            THEN [previous_data |-> pd, alerts |-> <<>>, raised |-> "KeyError"]
            ELSE IF DOMAIN pd = {}
            THEN CompareLoopAnyBaseline(data, i + 1,
                                        Store(pd, protocol_name, protocol_data), acc)
            ELSE LET prev_data == IF protocol_name \in DOMAIN pd THEN pd[protocol_name]
                                  ELSE pd[CHOOSE n \in DOMAIN pd : TRUE]
                     price == _check_price_change(protocol_name, prev_data, protocol_data)
                     tvl == _check_tvl_change(protocol_name, prev_data, protocol_data)
                     apy == _check_apy_change(protocol_name, prev_data, protocol_data)
                 IN CompareLoopAnyBaseline(data, i + 1, pd,
                                           acc \o price.out \o tvl.out \o apy.out)

\* the first loop of check_alerts from entry i on: pd is self.previous_data,
\* acc the alerts list so far
RECURSIVE CompareLoop(_, _, _, _)
CompareLoop(data, i, pd, acc) ==
    IF i > Len(data)
    THEN [previous_data |-> pd, alerts |-> acc, raised |-> "none"]
    ELSE LET protocol_data == data[i]
             protocol_name == protocol_data.name
         IN IF protocol_name = NoName
            THEN [previous_data |-> pd, alerts |-> <<>>, raised |-> "KeyError"]
            ELSE IF protocol_name \notin DOMAIN pd
            THEN CompareLoop(data, i + 1, Store(pd, protocol_name, protocol_data), acc)
            ELSE LET prev_data == pd[protocol_name]
                     price == _check_price_change(protocol_name, prev_data, protocol_data)
                     tvl == _check_tvl_change(protocol_name, prev_data, protocol_data)
                     apy == _check_apy_change(protocol_name, prev_data, protocol_data)
                 IN IF price.error \/ (tvl.error \/ apy.error)
                    THEN [previous_data |-> pd, alerts |-> <<>>,
                          raised |-> "ZeroDivisionError"]
                    ELSE CompareLoop(data, i + 1, pd,
                                     acc \o price.out \o tvl.out \o apy.out)

\* the second loop left out: the baseline of a protocol is never overwritten
UpdateLoopOmitted(data, i, pd) == pd

\* the second loop replacing previous_data by the snapshots of the batch
UpdateLoopBatchOnly(data, i, pd) ==
    [n \in {data[k].name : k \in i..Len(data)} |->
        data[CHOOSE k \in i..Len(data) :
                 /\ data[k].name = n
                 /\ \A l \in i..Len(data) : data[l].name = n => l <= k]]

\* the second loop storing only the protocols that have no baseline yet
RECURSIVE UpdateLoopKeepExisting(_, _, _)
UpdateLoopKeepExisting(data, i, pd) ==
    IF i > Len(data) THEN pd
    ELSE UpdateLoopKeepExisting(data, i + 1,
                                IF data[i].name \in DOMAIN pd THEN pd
                                ELSE Store(pd, data[i].name, data[i]))

\* the second loop of check_alerts: every snapshot of the batch becomes the baseline
RECURSIVE UpdateLoop(_, _, _)
UpdateLoop(data, i, pd) ==
    IF i > Len(data) THEN pd
    ELSE UpdateLoop(data, i + 1, Store(pd, data[i].name, data[i]))

\* check_alerts without the test of self.enabled
check_alerts_IgnoreEnabled(data, pd) ==
    LET first == CompareLoop(data, 1, pd, <<>>)
    IN IF first.raised # "none" THEN first
       ELSE [previous_data |-> UpdateLoop(data, 1, first.previous_data),
             alerts |-> first.alerts, raised |-> "none"]

\* check_alerts(current_data) called in a state whose previous_data is pd
check_alerts(data, pd) ==
    IF ~enabled
    THEN [previous_data |-> pd, alerts |-> <<>>, raised |-> "none"]
    ELSE LET first == CompareLoop(data, 1, pd, <<>>)
         IN IF first.raised # "none" THEN first
            ELSE [previous_data |-> UpdateLoop(data, 1, first.previous_data),
                  alerts |-> first.alerts, raised |-> "none"]

----------------------------------------------------------------------------
(* The fetch layer.  What the upstream answers is an input of a call: one  *)
(* response for a DefiLlama request, and for CoinGecko the responses to    *)
(* the successive requests of one _make_request call.                      *)

\* "ok": 200 with the JSON the client expects; "ok_malformed": 200 with JSON of
\* another shape, on which the code that reads it raises; "429"; "http_error":
\* another status of 400 or more; "network_error": no usable response
\* (connection error, the timeout of 30 s, a body that is not JSON)
Responses == {"ok", "ok_malformed", "429", "http_error", "network_error"}

\* the responses to the requests of one CoinGecko _make_request call: a further
\* request is only made after a 429
CgHistories ==
    { h \in UNION { [1..n -> Responses] : n \in 1..MaxRequests } :
          \A i \in 1..(Len(h) - 1) : h[i] = "429" }

\* what response.json() gives _make_request to return
Body(response) == IF response = "ok" THEN "data" ELSE "malformed"

\* CoinGeckoAPI._make_request from its i-th request on: on a 429 it sleeps 60 s and
\* calls itself; result "retrying" says the call is still going on after the
\* last response of h
RECURSIVE CoinGeckoAPI_make_request(_, _)
CoinGeckoAPI_make_request(h, i) ==
    IF i > Len(h) THEN [result |-> "retrying", requests |-> Len(h)]
    ELSE IF h[i] = "429" THEN CoinGeckoAPI_make_request(h, i + 1)
    ELSE IF h[i] \in {"ok", "ok_malformed"}
         THEN [result |-> Body(h[i]), requests |-> i]
         ELSE [result |-> "None", requests |-> i]

\* DefiLlamaAPI._make_request: one request; a 429 is an HTTPError of
\* raise_for_status like any other status
DefiLlamaAPI_make_request(response) ==
    IF response \in {"ok", "ok_malformed"}
    THEN [result |-> Body(response), requests |-> 1]
    ELSE [result |-> "None", requests |-> 1]

\* get_token_price, get_protocol_tvl, get_protocol_yields on what _make_request
\* returned: the data, None, or an exception raised while reading the JSON
ReadResult(r) ==
    IF r = "data" THEN "data"
    ELSE IF r = "malformed" THEN "raised"
    ELSE r

get_token_price(h) == ReadResult(CoinGeckoAPI_make_request(h, 1).result)

get_protocol_tvl(response) == ReadResult(DefiLlamaAPI_make_request(response).result)

get_protocol_yields(response) == ReadResult(DefiLlamaAPI_make_request(response).result)

\* the request got no 2xx answer: a network error or a status of 400 or more
\* (a 429 that is not retried among them)
Failed(response) == response \in {"429", "http_error", "network_error"}

\* no request of the pass failed
NoFailure == [tvl |-> FALSE, price |-> FALSE]

\* the keys of self.protocols of DeFiMonitor, in the order of the dict
MonitorProtocols == <<"aave", "lido", "eigenlayer">>

\* DeFiMonitor.get_tvl: the tvl of the answer, or, on any exception, a dict
\* with 'error' and without 'tvl'
get_tvl(response) ==
    IF response = "ok" THEN [tvl |-> Some(1000), error |-> None]
    ELSE [tvl |-> None, error |-> Some(response)]

\* DeFiMonitor.get_price: the same for 'price_usd'
get_price(response) ==
    IF response = "ok" THEN [price_usd |-> Some(100), error |-> None]
    ELSE [price_usd |-> None, error |-> Some(response)]

\* tvl_data.get('tvl', 0): the default for a key that is not there
GetOrZero(value) == IF value = None THEN Some(0) ELSE value

\* protocol_data of get_all_protocols_data: the metrics with 0 as default, and no
\* 'error' key
protocol_data(name, tvl_data, price_data) ==
    [name |-> name,
     tvl |-> GetOrZero(tvl_data.tvl),
     price |-> GetOrZero(price_data.price_usd),
     apy |-> None,
     error |-> None,
     keys |-> "monitor"]

\* the 'name' of a protocol configuration whose name is not a string
NonStrName == "<42>"

\* the protocol configurations: name, whether it is a string, and whether
\* defillama_slug and coingecko_id are set
ProtocolConfigs ==
    { [name |-> "aave", is_str |-> TRUE, defillama_slug |-> TRUE, coingecko_id |-> TRUE],
      [name |-> "lido", is_str |-> TRUE, defillama_slug |-> TRUE, coingecko_id |-> FALSE],
      [name |-> NonStrName, is_str |-> FALSE, defillama_slug |-> TRUE,
       coingecko_id |-> TRUE],
      [name |-> NoName, is_str |-> TRUE, defillama_slug |-> TRUE, coingecko_id |-> TRUE] }

ProtocolLists == UNION { [1..n -> ProtocolConfigs] : n \in 0..MaxProtocols }

\* the snapshot fetch_protocol_data returns: a metric is set when its call gave
\* data, 'error' when the tvl or the price call raised (the price one last)
FetchedSnapshot(protocol, tvl, price, apy) ==
    [name |-> protocol.name,
     tvl |-> IF protocol.defillama_slug /\ tvl = "data" THEN Some(1000) ELSE None,
     price |-> IF protocol.coingecko_id /\ price = "data" THEN Some(100) ELSE None,
     apy |-> IF protocol.defillama_slug /\ apy = "data" THEN Some(3) ELSE None,
     error |-> IF protocol.coingecko_id /\ price = "raised" THEN Some("price")
               ELSE IF protocol.defillama_slug /\ tvl = "raised" THEN Some("tvl")
               ELSE None,
     keys |-> "all"]

\* fetch_protocol_data(protocol): protocol['name'] and name.upper() run outside
\* every try, the three upstream calls each inside its own
fetch_protocol_data(protocol, tvl, price, apy) ==
    IF protocol.name = NoName THEN [raised |-> "KeyError", data |-> <<>>]
    ELSE IF ~protocol.is_str THEN [raised |-> "AttributeError", data |-> <<>>]
    ELSE [raised |-> "none", data |-> << FetchedSnapshot(protocol, tvl, price, apy) >>]

\* the body of the loop with a handler that skips the protocol
LoopBodySkipFailed(protocol, tvl, price, apy) ==
    LET r == fetch_protocol_data(protocol, tvl, price, apy)
    IN IF r.raised = "none" THEN [raised |-> "none", append |-> r.data]
       ELSE IF protocol.name = NoName THEN [raised |-> "KeyError", append |-> <<>>]
       ELSE [raised |-> "none", append |-> <<>>]

\* the body of the loop of fetch_all_protocols: the snapshot of
\* fetch_protocol_data is appended, or, when that raised, a snapshot of the name
\* and the error; the handler reads protocol['name'] itself
LoopBody(protocol, tvl, price, apy) ==
    LET r == fetch_protocol_data(protocol, tvl, price, apy)
    IN IF r.raised = "none" THEN [raised |-> "none", append |-> r.data]
       ELSE IF protocol.name = NoName THEN [raised |-> "KeyError", append |-> <<>>]
       ELSE [raised |-> "none",
             append |-> << [name |-> protocol.name, tvl |-> None, price |-> None,
                            apy |-> None, error |-> Some(r.raised),
                            keys |-> "name, error"] >>]

----------------------------------------------------------------------------
(* The text report and the history of the batches *)

\* Visualizer.generate_text_report(data): for every snapshot its name and the
\* lines of the metrics that are true in Python's sense; d['name'] raises on a
\* snapshot without the key
RECURSIVE generate_text_report(_, _, _)
generate_text_report(data, i, acc) ==
    IF i > Len(data) THEN [raised |-> "none", report |-> acc]
    ELSE IF data[i].name = NoName THEN [raised |-> "KeyError", report |-> <<>>]
    ELSE generate_text_report(data, i + 1,
             Append(acc, [protocol |-> data[i].name,
                          tvl |-> Truthy(data[i].tvl),
                          price |-> Truthy(data[i].price),
                          apy |-> Truthy(data[i].apy)]))

\* the names of the snapshots of a batch
Names(data) == {data[i].name : i \in DOMAIN data}

\* a batch that keeps the input contract of the detector: every snapshot has
\* its name, and no name comes twice
WellFormed(data) ==
    /\ NoName \notin Names(data)
    /\ \A i, j \in DOMAIN data : data[i].name = data[j].name => i = j

\* the history after a pass on a well-formed batch
Seen(ls, data) ==
    [n \in (DOMAIN ls) \cup Names(data) |->
        IF n \in Names(data) THEN data[CHOOSE i \in DOMAIN data : data[i].name = n]
        ELSE ls[n]]

Missed(ms, data) ==
    [n \in (DOMAIN ms) \cup Names(data) |->
        IF n \in Names(data) THEN 0
        ELSE IF ms[n] < MaxMissed THEN ms[n] + 1 ELSE MaxMissed]

----------------------------------------------------------------------------
(* The rate limit of the API clients.  Time is counted in fifths of a      *)
(* second.  The clients only compare the time since last_request_time with *)
(* min_request_interval, so the model keeps elapsed times up to that       *)
(* interval instead of the clock.                                          *)

Clients == {"coingecko", "defillama"}

\* config.get('rate_limit', 30) of CoinGeckoAPI, requests per minute
CoinGeckoRateLimit == 30

\* config.get('rate_limit', 100) of DefiLlamaAPI, requests per minute
DefiLlamaRateLimit == 100

RateLimits == {CoinGeckoRateLimit, DefiLlamaRateLimit}

\* self.min_request_interval = 60 / self.rate_limit seconds
min_request_interval == 300 \div rate_limit

\* time.sleep(60) after a 429
Cooldown == 300

\* session.get(url, timeout=30)
Timeout == 150

\* an elapsed time, kept up to min_request_interval
Elapsed(t) == IF t < min_request_interval THEN t ELSE min_request_interval

\* what a session.get call meets: an answer 200, 429 or another status, a
\* connection that fails, or no answer within the timeout
ClientResponses == {"ok", "429", "http_error", "network_error", "timeout"}

\* session.get raised, so the line after it was not reached
GetRaised(r) == r \in {"network_error", "timeout"}

\* the time a session.get call takes
Latencies(r) == IF r = "timeout" THEN {Timeout} ELSE 1..MaxLatency

\* time.sleep(self.min_request_interval - time_since_last) of the rate limiting
\* block: the time slept when the block is entered t after last_request_time
RateLimitSleep(t) == IF t < min_request_interval THEN min_request_interval - t ELSE 0

\* no API client is followed
NoClient ==
    /\ client = "coingecko"
    /\ rate_limit = CoinGeckoRateLimit
    /\ client_pc = "idle"
    /\ time_since_last = 0
    /\ since_get = None
    /\ spacing = None
    /\ client_response = "none"

----------------------------------------------------------------------------
(* State machine *)

\* the state of a new AlertManager, before any call
InitCalls ==
    /\ previous_data = <<>>
    /\ op = "start"
    /\ current_data = <<>>
    /\ entry_data = <<>>
    /\ alerts = <<>>
    /\ raised = "none"
    /\ repeated = FALSE
    /\ count = 0
    /\ channel = NoChannel
    /\ discord_posts = 0
    /\ attempts = NoAttempts
    /\ report = <<>>
    /\ last_seen = <<>>
    /\ missed = <<>>

\* no fetch_all_protocols call: an empty list of protocols, no request made
NoFetch ==
    /\ protocols = <<>>
    /\ fetch_pc = "returned"
    /\ fetch_i = 0
    /\ results = <<>>
    /\ cg_requests = 0
    /\ llama_requests = 0
    /\ failed = NoFailure
    /\ monitor_i = 0
    /\ all_data = <<>>

\* the e-mail channel of the last send_alerts call is still waiting for the remote
\* end: the call has not returned, and the single thread of the caller does
\* nothing else
Blocked == op = "send_alerts" /\ channel.email = "InProgress"

\* AlertManager(config) for the detector configurations, with the default channels:
\* console on, webhook and e-mail off, no credentials in the environment
Init ==
    /\ \E c \in DetectorConfigs :
          /\ enabled = c.enabled
          /\ price_threshold = c.price
          /\ tvl_threshold = c.tvl
          /\ apy_threshold = c.apy
    /\ alerts_config = [console |-> TRUE, discord_webhook |-> FALSE, email |-> FALSE]
    /\ discord_webhook_url = FALSE
    /\ email_to = FALSE
    /\ email_from = FALSE
    /\ smtp_username = FALSE
    /\ smtp_password = FALSE
    /\ InitCalls
    /\ NoFetch
    /\ NoClient

\* AlertManager(config) for every channel configuration, with the default thresholds
InitDispatch ==
    /\ enabled \in BOOLEAN
    /\ price_threshold = DefaultPriceThreshold
    /\ tvl_threshold = DefaultTvlThreshold
    /\ apy_threshold = DefaultApyThreshold
    /\ alerts_config \in [console : BOOLEAN, discord_webhook : BOOLEAN, email : BOOLEAN]
    /\ discord_webhook_url \in BOOLEAN
    /\ email_to \in BOOLEAN
    /\ email_from \in BOOLEAN
    /\ smtp_username \in BOOLEAN
    /\ smtp_password \in BOOLEAN
    /\ InitCalls
    /\ NoFetch
    /\ NoClient

\* the caller puts one more snapshot into the batch it is going to pass
AppendSnapshot ==
    \E s \in Snapshots :
        /\ ~Blocked
        /\ IF op = "input"
           THEN /\ Len(current_data) < MaxBatch
                /\ current_data' = Append(current_data, s)
           ELSE current_data' = <<s>>
        /\ op' = "input"
        /\ entry_data' = <<>>
        /\ alerts' = <<>>
        /\ raised' = "none"
        /\ repeated' = FALSE
        /\ count' = 0
        /\ channel' = NoChannel
        /\ discord_posts' = 0
        /\ attempts' = NoAttempts
        /\ UNCHANGED config_vars
        /\ UNCHANGED client_vars
        /\ UNCHANGED previous_data
        /\ UNCHANGED fetch_vars
        /\ report' = <<>>
        /\ UNCHANGED history_vars

\* one call check_alerts(current_data)
CheckAlerts ==
    LET r == check_alerts(current_data, previous_data)
    IN /\ ~Blocked
       /\ op' = "check_alerts"
       /\ entry_data' = previous_data
       /\ previous_data' = r.previous_data
       /\ alerts' = r.alerts
       /\ raised' = r.raised
       /\ repeated' = (op = "check_alerts")
       /\ count' = 0
       /\ channel' = NoChannel
       /\ discord_posts' = 0
       /\ attempts' = NoAttempts
       /\ UNCHANGED config_vars
       /\ UNCHANGED client_vars
       /\ UNCHANGED current_data
       /\ UNCHANGED fetch_vars
       /\ report' = <<>>
       /\ UNCHANGED history_vars

\* one call send_alerts(as), with the outcome of its I/O; the caller is
\* single-threaded, so the call does not fall between the steps that assemble a batch
SendAlerts ==
    \E as \in AlertLists, console_ok \in BOOLEAN, email_io \in EmailOutcomes :
        \E fail_at \in 0..Len(as) :
            LET r == send_alerts(as, console_ok, fail_at, email_io)
            IN /\ ~Blocked
               /\ op # "input"
               /\ op' = "send_alerts"
               /\ alerts' = as
               /\ count' = r.count
               /\ raised' = r.raised
               /\ channel' = r.channel
               /\ discord_posts' = r.discord_posts
               /\ attempts' = r.attempts
               /\ current_data' = <<>>
               /\ entry_data' = <<>>
               /\ repeated' = FALSE
               /\ UNCHANGED config_vars
               /\ UNCHANGED client_vars
               /\ UNCHANGED previous_data
               /\ UNCHANGED fetch_vars
               /\ report' = <<>>
               /\ UNCHANGED history_vars

Next ==
    \/ AppendSnapshot
    \/ CheckAlerts
    \/ SendAlerts

\* the detector and the dispatcher, over the detector configurations
Spec == Init /\ [][Next]_vars

\* fetch_all_protocols(protocols) of a new DataFetcher, for every list of
\* protocol configurations
InitFetch ==
    /\ enabled = TRUE
    /\ price_threshold = DefaultPriceThreshold
    /\ tvl_threshold = DefaultTvlThreshold
    /\ apy_threshold = DefaultApyThreshold
    /\ alerts_config = [console |-> TRUE, discord_webhook |-> FALSE, email |-> FALSE]
    /\ discord_webhook_url = FALSE
    /\ email_to = FALSE
    /\ email_from = FALSE
    /\ smtp_username = FALSE
    /\ smtp_password = FALSE
    /\ InitCalls
    /\ protocols \in ProtocolLists
    /\ fetch_pc = "loop"
    /\ fetch_i = 0
    /\ results = <<>>
    /\ cg_requests = 0
    /\ llama_requests = 0
    /\ failed = NoFailure
    /\ monitor_i = 0
    /\ all_data = <<>>
    /\ NoClient

\* one pass of the loop of fetch_all_protocols, with what the upstream answers to
\* the tvl request, the price requests and the yields request
FetchProtocol ==
    \E tvl \in Responses, h \in CgHistories, apy \in Responses :
        LET protocol == protocols[fetch_i + 1]
            called == protocol.name # NoName /\ protocol.is_str
            price == get_token_price(h)
            body == LoopBody(protocol, get_protocol_tvl(tvl), price,
                             get_protocol_yields(apy))
            appended == ~(called /\ protocol.coingecko_id /\ price = "retrying")
                            /\ body.raised = "none"
        IN /\ fetch_pc = "loop"
           /\ fetch_i < Len(protocols)
           /\ monitor_i = 0
           /\ failed' = [tvl |-> appended /\ called /\ protocol.defillama_slug
                                    /\ Failed(tvl),
                         price |-> appended /\ called /\ protocol.coingecko_id
                                      /\ Failed(h[Len(h)])]
           /\ UNCHANGED <<monitor_i, all_data>>
           /\ cg_requests' = IF called /\ protocol.coingecko_id
                             THEN CoinGeckoAPI_make_request(h, 1).requests ELSE 0
           /\ llama_requests' = IF called /\ protocol.defillama_slug
                                THEN DefiLlamaAPI_make_request(tvl).requests ELSE 0
           /\ IF called /\ protocol.coingecko_id /\ price = "retrying"
              THEN /\ fetch_pc' = "in_request"
                   /\ UNCHANGED <<fetch_i, results>>
              ELSE IF body.raised # "none"
              THEN /\ fetch_pc' = "raised"
                   /\ UNCHANGED <<fetch_i, results>>
              ELSE /\ fetch_pc' = "loop"
                   /\ fetch_i' = fetch_i + 1
                   /\ results' = results \o body.append
           /\ UNCHANGED protocols
           /\ UNCHANGED config_vars
           /\ UNCHANGED client_vars
           /\ UNCHANGED call_vars
           /\ UNCHANGED <<report, last_seen, missed>>

\* return results, after the last protocol
ReturnResults ==
    /\ fetch_pc = "loop"
    /\ fetch_i = Len(protocols)
    /\ monitor_i = 0
    /\ fetch_pc' = "returned"
    /\ UNCHANGED <<protocols, fetch_i, results, cg_requests, llama_requests>>
    /\ UNCHANGED <<failed, monitor_i, all_data>>
    /\ UNCHANGED config_vars
    /\ UNCHANGED client_vars
    /\ UNCHANGED call_vars
    /\ UNCHANGED <<report, last_seen, missed>>

\* one pass of the loop of DeFiMonitor.get_all_protocols_data, the fetch path of
\* the command line, with what the upstream answers to the tvl and the price
\* request; a run uses this path or the DataFetcher
GetProtocolData ==
    \E tvl \in Responses, price \in Responses :
        /\ fetch_pc = "loop"
        /\ fetch_i = 0
        /\ monitor_i < Len(MonitorProtocols)
        /\ monitor_i' = monitor_i + 1
        /\ all_data' = Append(all_data,
                              protocol_data(MonitorProtocols[monitor_i + 1],
                                            get_tvl(tvl), get_price(price)))
        /\ failed' = [tvl |-> Failed(tvl), price |-> Failed(price)]
        /\ UNCHANGED <<protocols, fetch_pc, fetch_i, results, cg_requests, llama_requests>>
        /\ UNCHANGED config_vars
        /\ UNCHANGED client_vars
        /\ UNCHANGED call_vars
        /\ UNCHANGED <<report, last_seen, missed>>

NextFetch ==
    \/ FetchProtocol
    \/ ReturnResults
    \/ GetProtocolData

\* one fetch_all_protocols call over every list of protocol configurations
SpecFetch == InitFetch /\ [][NextFetch]_vars

\* a call generate_text_report(current_data) that also keeps the snapshots as
\* baselines
GenerateTextReportStoring ==
    LET r == generate_text_report(current_data, 1, <<>>)
    IN /\ ~Blocked
       /\ op' = "generate_text_report"
       /\ report' = r.report
       /\ raised' = r.raised
       /\ previous_data' = IF WellFormed(current_data)
                           THEN Seen(previous_data, current_data) ELSE previous_data
       /\ entry_data' = <<>>
       /\ alerts' = <<>>
       /\ repeated' = FALSE
       /\ count' = 0
       /\ channel' = NoChannel
       /\ discord_posts' = 0
       /\ attempts' = NoAttempts
       /\ UNCHANGED config_vars
       /\ UNCHANGED client_vars
       /\ UNCHANGED current_data
       /\ UNCHANGED fetch_vars
       /\ UNCHANGED history_vars

\* one call generate_text_report(current_data) of the Visualizer, on the batch
\* the caller holds
GenerateTextReport ==
    LET r == generate_text_report(current_data, 1, <<>>)
    IN /\ ~Blocked
       /\ op' = "generate_text_report"
       /\ report' = r.report
       /\ raised' = r.raised
       /\ entry_data' = <<>>
       /\ alerts' = <<>>
       /\ repeated' = FALSE
       /\ count' = 0
       /\ channel' = NoChannel
       /\ discord_posts' = 0
       /\ attempts' = NoAttempts
       /\ UNCHANGED config_vars
       /\ UNCHANGED client_vars
       /\ UNCHANGED <<previous_data, current_data>>
       /\ UNCHANGED fetch_vars
       /\ UNCHANGED history_vars

\* AlertManager(config) with the default thresholds, alerting on or off, and
\* the default channels
InitReport ==
    /\ Init
    /\ price_threshold = DefaultPriceThreshold

NextReport ==
    \/ AppendSnapshot
    \/ CheckAlerts
    \/ SendAlerts
    \/ GenerateTextReport

\* the detector, the dispatcher and the text report called in any order
SpecReport == InitReport /\ [][NextReport]_vars

\* the caller puts one more snapshot into a batch that keeps the input contract
AppendWellFormed ==
    /\ AppendSnapshot
    /\ WellFormed(current_data')

\* one call check_alerts(current_data), with the batch entered into the history
CheckAlertsSeen ==
    LET r == check_alerts(current_data, previous_data)
    IN /\ ~Blocked
       /\ op' = "check_alerts"
       /\ entry_data' = previous_data
       /\ previous_data' = r.previous_data
       /\ alerts' = r.alerts
       /\ raised' = r.raised
       /\ repeated' = (op = "check_alerts")
       /\ count' = 0
       /\ channel' = NoChannel
       /\ discord_posts' = 0
       /\ attempts' = NoAttempts
       /\ last_seen' = Seen(last_seen, current_data)
       /\ missed' = Missed(missed, current_data)
       /\ report' = <<>>
       /\ UNCHANGED config_vars
       /\ UNCHANGED client_vars
       /\ UNCHANGED current_data
       /\ UNCHANGED fetch_vars

\* an enabled AlertManager with the default thresholds or with 20/25/2
InitHistory ==
    /\ Init
    /\ enabled
    /\ price_threshold > 0

NextHistory ==
    \/ AppendWellFormed
    \/ CheckAlertsSeen

\* enabled check_alerts calls on well-formed batches, with their history
SpecHistory == InitHistory /\ [][NextHistory]_vars

\* a new CoinGeckoAPI or DefiLlamaAPI, with either default rate limit:
\* last_request_time = 0, so the time since it is beyond every interval
InitClient ==
    /\ enabled = TRUE
    /\ price_threshold = DefaultPriceThreshold
    /\ tvl_threshold = DefaultTvlThreshold
    /\ apy_threshold = DefaultApyThreshold
    /\ alerts_config = [console |-> TRUE, discord_webhook |-> FALSE, email |-> FALSE]
    /\ discord_webhook_url = FALSE
    /\ email_to = FALSE
    /\ email_from = FALSE
    /\ smtp_username = FALSE
    /\ smtp_password = FALSE
    /\ InitCalls
    /\ NoFetch
    /\ client \in Clients
    /\ rate_limit \in RateLimits
    /\ client_pc = "idle"
    /\ time_since_last = min_request_interval
    /\ since_get = None
    /\ spacing = None
    /\ client_response = "none"

\* _make_request from its entry to the call of session.get: the rate limiting
\* block, entered by a caller that waited idle since the last call returned, or at
\* once by the recursive call after a 429
MakeRequest ==
    \E idle \in (IF client_pc = "idle" THEN 0..MaxIdle ELSE {0}) :
        LET entered == Elapsed(time_since_last + idle)
            slept == RateLimitSleep(entered)
        IN  /\ client_pc \in {"idle", "retry"}
            /\ time_since_last' = Elapsed(entered + slept)
            /\ spacing' = IF since_get = None THEN None
                          ELSE Some(Elapsed(since_get[1] + idle + slept))
            /\ since_get' = Some(0)
            /\ client_pc' = "get"
            /\ UNCHANGED <<client, rate_limit, client_response>>
            /\ UNCHANGED config_vars
            /\ UNCHANGED call_vars
            /\ UNCHANGED fetch_vars
            /\ UNCHANGED <<report, last_seen, missed>>

\* _make_request from the return of session.get to its own return or to the
\* recursive call: last_request_time is set when session.get returned, a 429 of
\* CoinGecko is followed by the cooldown and the recursive call, everything else
\* returns (the data, or None after an exception)
RequestDone ==
    \E r \in ClientResponses : \E latency \in Latencies(r) :
        LET stamped == IF GetRaised(r) THEN Elapsed(time_since_last + latency) ELSE 0
            retry == r = "429" /\ client = "coingecko"
            cooldown == IF retry THEN Cooldown ELSE 0
        IN  /\ client_pc = "get"
            /\ client_response' = r
            /\ time_since_last' = Elapsed(stamped + cooldown)
            /\ since_get' = Some(Elapsed(since_get[1] + latency + cooldown))
            /\ client_pc' = IF retry THEN "retry" ELSE "idle"
            /\ UNCHANGED <<client, rate_limit, spacing>>
            /\ UNCHANGED config_vars
            /\ UNCHANGED call_vars
            /\ UNCHANGED fetch_vars
            /\ UNCHANGED <<report, last_seen, missed>>

NextClient ==
    \/ MakeRequest
    \/ RequestDone

\* the _make_request calls of one API client
SpecClient == InitClient /\ [][NextClient]_vars

NextDispatch ==
    \/ CheckAlerts
    \/ SendAlerts

\* the dispatcher over every channel configuration (no snapshots are fed in)
SpecDispatch == InitDispatch /\ [][NextDispatch]_vars

----------------------------------------------------------------------------
(* Properties of check_alerts.  entry_data is previous_data before the     *)
(* call, previous_data is previous_data after it, current_data the batch.  *)

\* the last call was check_alerts with alerting enabled, and it returned
Returned == op = "check_alerts" /\ enabled /\ raised = "none"

\* the protocol identifiers of the batch are unique within the call
UniqueIds == \A i, j \in DOMAIN current_data :
                 current_data[i].name = current_data[j].name => i = j

\* the returned list holds an alert of this type for this protocol
HasAlert(type, name) ==
    \E k \in DOMAIN alerts : alerts[k].type = type /\ alerts[k].protocol = name

\* entry i of the batch had a baseline when the call started
HadBaseline(i) == current_data[i].name \in DOMAIN entry_data

\* C1 (baseline rule): in a call that returns on a batch with unique identifiers,
\* a protocol without an entry in previous_data at the start of the call gets no
\* alert, and previous_data maps it to the snapshot passed in after the call.
C1_BaselineRule ==
    (Returned /\ UniqueIds) =>
        \A i \in DOMAIN current_data :
            ~HadBaseline(i) =>
                /\ \A k \in DOMAIN alerts : alerts[k].protocol # current_data[i].name
                /\ current_data[i].name \in DOMAIN previous_data
                /\ previous_data[current_data[i].name] = current_data[i]

\* a first-seen protocol with a price, in a call that alerts on another protocol
C1_Witness ==
    /\ Returned /\ UniqueIds
    /\ alerts # <<>>
    /\ \E i \in DOMAIN current_data : ~HadBaseline(i) /\ Truthy(current_data[i].price)

\* C2 (inclusive threshold boundary), as claimed, for thresholds above zero: with
\* a baseline, both values present and the previous one non-zero, a price (tvl)
\* alert is emitted exactly when the percent change is at least the price (tvl)
\* threshold.
C2_InclusiveBoundary ==
    (Returned /\ UniqueIds /\ price_threshold > 0 /\ tvl_threshold > 0) =>
        \A i \in DOMAIN current_data :
            HadBaseline(i) =>
                LET name == current_data[i].name
                    prev == entry_data[name]
                    curr == current_data[i]
                IN /\ (prev.price # None /\ curr.price # None /\ prev.price # Some(0)) =>
                          (HasAlert("price", name) <=>
                              PercentAtLeast(prev.price[1], curr.price[1], price_threshold))
                   /\ (prev.tvl # None /\ curr.tvl # None /\ prev.tvl # Some(0)) =>
                          (HasAlert("tvl", name) <=>
                              PercentAtLeast(prev.tvl[1], curr.tvl[1], tvl_threshold))

\* the configured threshold of a price or tvl alert
ThresholdOf(type) == IF type = "price" THEN price_threshold ELSE tvl_threshold

\* C3 (severity derived from the configured threshold), as claimed, for
\* thresholds above zero and unique identifiers: a price or tvl alert is HIGH
\* when the change is at least twice the configured threshold and MEDIUM when it
\* is below that.
C3_SeverityFromThreshold ==
    (Returned /\ UniqueIds /\ price_threshold > 0 /\ tvl_threshold > 0) =>
        \A k \in DOMAIN alerts :
            alerts[k].type \in {"price", "tvl"} =>
                (alerts[k].severity = "HIGH" <=>
                    PercentAtLeast(alerts[k].previous, alerts[k].current,
                                   2 * ThresholdOf(alerts[k].type)))

\* the snapshots of the batch that carry their 'name' key
WellFormedPart == SelectSeq(current_data, LAMBDA s : s.name # NoName)

\* C4 (no exception escapes), as claimed: on a batch of well-formed snapshots and
\* one snapshot that lacks its 'name' key, check_alerts does not raise, returns
\* the alerts of the well-formed snapshots and updates exactly their baselines.
C4_MalformedSkipped ==
    (/\ op = "check_alerts" /\ enabled
     /\ Len(WellFormedPart) >= 1
     /\ Len(WellFormedPart) + 1 = Len(current_data)) =>
        /\ raised = "none"
        /\ alerts = check_alerts(WellFormedPart, entry_data).alerts
        /\ previous_data = check_alerts(WellFormedPart, entry_data).previous_data

\* C6 (a current value of zero is present), as claimed, for thresholds above
\* zero: with a previous price (tvl) present and non-zero and a current price
\* (tvl) of 0, the change is -100% and an alert is emitted whenever 100 is at
\* least the threshold.
C6_ZeroCurrentAlerts ==
    (Returned /\ UniqueIds /\ price_threshold > 0 /\ tvl_threshold > 0) =>
        \A i \in DOMAIN current_data :
            HadBaseline(i) =>
                LET name == current_data[i].name
                    prev == entry_data[name]
                    curr == current_data[i]
                IN /\ (Truthy(prev.price) /\ curr.price = Some(0) /\ 100 >= price_threshold)
                          => HasAlert("price", name)
                   /\ (Truthy(prev.tvl) /\ curr.tvl = Some(0) /\ 100 >= tvl_threshold)
                          => HasAlert("tvl", name)

\* C7 (divide-by-zero guard): no call raises ZeroDivisionError, and in a call that
\* returns, a protocol whose previous price (tvl) is 0 or absent gets no price
\* (tvl) alert, whatever its current value.
C7_DivideByZeroGuard ==
    /\ raised # "ZeroDivisionError"
    /\ (Returned /\ UniqueIds) =>
           \A i \in DOMAIN current_data :
               HadBaseline(i) =>
                   LET name == current_data[i].name
                       prev == entry_data[name]
                   IN /\ ~Truthy(prev.price) => ~HasAlert("price", name)
                      /\ ~Truthy(prev.tvl) => ~HasAlert("tvl", name)

\* a previous price of 0 and a previous tvl that is absent, each met by a
\* current value that is not zero
C7_Witness ==
    /\ Returned /\ UniqueIds
    /\ \E i \in DOMAIN current_data :
           /\ HadBaseline(i)
           /\ entry_data[current_data[i].name].price = Some(0)
           /\ Truthy(current_data[i].price)
    /\ \E i \in DOMAIN current_data :
           /\ HadBaseline(i)
           /\ entry_data[current_data[i].name].tvl = None
           /\ Truthy(current_data[i].tvl)

\* C8 (apy check needs presence only), as claimed, for a threshold above zero:
\* with a baseline and both apy values present, 0 included, an apy alert is
\* emitted exactly when the absolute difference is at least the apy threshold.
C8_ApyPresenceOnly ==
    (Returned /\ UniqueIds /\ apy_threshold > 0) =>
        \A i \in DOMAIN current_data :
            HadBaseline(i) =>
                LET name == current_data[i].name
                    prev == entry_data[name]
                    curr == current_data[i]
                IN (prev.apy # None /\ curr.apy # None) =>
                       (HasAlert("apy", name) <=>
                           Abs(curr.apy[1] - prev.apy[1]) >= apy_threshold)

\* C9 (apy alerts are MEDIUM): no list returned by check_alerts holds an apy
\* alert whose severity is not MEDIUM.
C9_ApyAlwaysMedium ==
    op = "check_alerts" =>
        \A k \in DOMAIN alerts : alerts[k].type = "apy" => alerts[k].severity = "MEDIUM"

\* an apy alert for a change of at least twice a non-default apy threshold
C9_Witness ==
    /\ Returned
    /\ apy_threshold # DefaultApyThreshold
    /\ \E k \in DOMAIN alerts :
           /\ alerts[k].type = "apy"
           /\ Abs(alerts[k].current - alerts[k].previous) >= 2 * apy_threshold

\* C10 (idempotent no-op), as claimed: for every configuration and every batch,
\* the second of two calls in a row on the same snapshots returns no alert.
C10_SecondCallEmpty ==
    (op = "check_alerts" /\ repeated /\ raised = "none") => alerts = <<>>

\* C10 as amended: with all three thresholds above zero and the identifiers of
\* the batch unique, the second of two calls in a row on the same snapshots
\* returns no alert.
C10_SecondCallEmptyAmended ==
    (/\ op = "check_alerts" /\ repeated /\ raised = "none"
     /\ price_threshold > 0 /\ tvl_threshold > 0 /\ apy_threshold > 0
     /\ UniqueIds) => alerts = <<>>

\* a second call in a row, alerting enabled, on a batch of two protocols with
\* prices, tvl and apy
C10_Witness ==
    /\ Returned /\ repeated /\ UniqueIds
    /\ price_threshold > 0 /\ tvl_threshold > 0 /\ apy_threshold > 0
    /\ Len(current_data) = 2
    /\ \A i \in DOMAIN current_data :
           Truthy(current_data[i].price) /\ Truthy(current_data[i].tvl)
               /\ Truthy(current_data[i].apy)
    /\ alerts = <<>>

\* the value of the metric an alert of this type is about
Metric(s, type) == IF type = "price" THEN s.price
                   ELSE IF type = "tvl" THEN s.tvl ELSE s.apy

MetricTypes == {"price", "tvl", "apy"}

\* the step of this metric from prev to curr is below the configured threshold:
\* percent of the previous value for price and tvl, percentage points for apy
StepBelowThreshold(prev, curr, type) ==
    /\ Metric(prev, type) # None /\ Metric(curr, type) # None
    /\ IF type = "apy"
       THEN Abs(Metric(curr, type)[1] - Metric(prev, type)[1]) < apy_threshold
       ELSE /\ Metric(prev, type)[1] # 0
            /\ ~PercentAtLeast(Metric(prev, type)[1], Metric(curr, type)[1],
                               ThresholdOf(type))

\* every alert of the call is about one protocol of the batch that had a baseline,
\* and reports that baseline's value and the batch's value of its metric
AlertsFromPrecedingPass ==
    \A k \in DOMAIN alerts :
        \E i \in DOMAIN current_data :
            /\ current_data[i].name = alerts[k].protocol
            /\ HadBaseline(i)
            /\ Metric(entry_data[current_data[i].name], alerts[k].type)
                   = Some(alerts[k].previous)
            /\ Metric(current_data[i], alerts[k].type) = Some(alerts[k].current)

\* after the call the baseline of every protocol of the batch is its snapshot
BaselinesOverwritten ==
    \A i \in DOMAIN current_data :
        /\ current_data[i].name \in DOMAIN previous_data
        /\ previous_data[current_data[i].name] = current_data[i]

\* no alert for a metric whose value is the one of the baseline
NoAlertWhenValueStays ==
    \A i \in DOMAIN current_data, t \in MetricTypes :
        (/\ HadBaseline(i)
         /\ Metric(entry_data[current_data[i].name], t) = Metric(current_data[i], t))
            => ~HasAlert(t, current_data[i].name)

\* no alert for a metric whose step from the baseline is below the threshold
NoAlertBelowThreshold ==
    \A i \in DOMAIN current_data, t \in MetricTypes :
        (/\ HadBaseline(i)
         /\ StepBelowThreshold(entry_data[current_data[i].name], current_data[i], t))
            => ~HasAlert(t, current_data[i].name)

C12_DisabledNoEffect ==
    (op = "check_alerts" /\ ~enabled) =>
        /\ alerts = <<>>
        /\ raised = "none"
        /\ previous_data = entry_data
        /\ previous_data = <<>>

\* a disabled manager called with a batch of two snapshots, one with a price
C12_Witness ==
    /\ op = "check_alerts" /\ ~enabled
    /\ Len(current_data) = 2
    /\ \E i \in DOMAIN current_data : Truthy(current_data[i].price)
    /\ alerts = <<>>

\* the test of one check on the values of its own metric: both values true in
\* Python's sense and the change at least the threshold
Fires(prev, curr, type) ==
    /\ Truthy(Metric(prev, type)) /\ Truthy(Metric(curr, type))
    /\ IF type = "apy"
       THEN Abs(Metric(curr, type)[1] - Metric(prev, type)[1]) >= apy_threshold
       ELSE PercentAtLeast(Metric(prev, type)[1], Metric(curr, type)[1],
                           ThresholdOf(type))

\* the place of a metric in the order price, tvl, apy
Rank(type) == IF type = "price" THEN 1 ELSE IF type = "tvl" THEN 2 ELSE 3

\* the alerts of the returned list that are about this protocol
AlertsOf(name) == SelectSeq(alerts, LAMBDA a : a.protocol = name)

\* C22 (independent checks, stable order): in a call that returns on a batch
\* with unique identifiers, a protocol with a baseline gets the alert of a
\* metric exactly when the check of that metric fires on that metric's own two
\* values, whatever the other two checks do, and the alerts of one protocol stand
\* in the list in the order price, tvl, apy.
C22_IndependentOrdered ==
    (Returned /\ UniqueIds) =>
        /\ \A i \in DOMAIN current_data, t \in MetricTypes :
               HadBaseline(i) =>
                   (HasAlert(t, current_data[i].name)
                       <=> Fires(entry_data[current_data[i].name], current_data[i], t))
        /\ \A k, l \in DOMAIN alerts :
               (k < l /\ alerts[k].protocol = alerts[l].protocol)
                   => Rank(alerts[k].type) < Rank(alerts[l].type)

\* one protocol gets its three alerts, price, tvl, apy in this order, and the
\* other protocol of the batch gets exactly one
C22_Witness ==
    /\ Returned /\ UniqueIds
    /\ \E n \in Protocols :
           /\ Len(AlertsOf(n)) = 3
           /\ AlertsOf(n)[1].type = "price"
           /\ AlertsOf(n)[2].type = "tvl"
           /\ AlertsOf(n)[3].type = "apy"
    /\ \E n \in Protocols : Len(AlertsOf(n)) = 1

\* C23 (an absent metric becomes the baseline), as claimed, for an apy
\* threshold above zero: a protocol whose baseline has no apy gets no apy alert
\* and the apy passed in is its baseline afterwards; and a protocol whose
\* baseline has a non-zero apy gets an apy alert exactly when the apy passed in
\* differs from it by at least the threshold.
C23_AbsentThenBaseline ==
    (Returned /\ UniqueIds /\ apy_threshold > 0) =>
        \A i \in DOMAIN current_data :
            HadBaseline(i) =>
                LET name == current_data[i].name
                    prev == entry_data[name]
                    curr == current_data[i]
                IN /\ prev.apy = None =>
                          (~HasAlert("apy", name) /\ previous_data[name].apy = curr.apy)
                   /\ (Truthy(prev.apy) /\ curr.apy # None) =>
                          (HasAlert("apy", name) <=>
                              Abs(curr.apy[1] - prev.apy[1]) >= apy_threshold)

\* C24 (direction label): every alert is labelled INCREASED exactly when its
\* delta is above zero, the delta being the change in percent of the previous
\* value for price and tvl and the difference for apy, and DECREASED otherwise.
C24_DirectionLabel ==
    op = "check_alerts" =>
        \A k \in DOMAIN alerts :
            LET delta_positive ==
                    IF alerts[k].type = "apy"
                    THEN alerts[k].current - alerts[k].previous > 0
                    ELSE (alerts[k].current - alerts[k].previous) * alerts[k].previous > 0
            IN /\ alerts[k].direction \in {"INCREASED", "DECREASED"}
               /\ alerts[k].direction = "INCREASED" <=> delta_positive

\* a returned list with an alert of a rise, an alert of a fall and an alert of
\* a delta of zero
C24_Witness ==
    /\ Returned
    /\ \E k \in DOMAIN alerts :
           alerts[k].current > alerts[k].previous /\ alerts[k].direction = "INCREASED"
    /\ \E k \in DOMAIN alerts :
           alerts[k].current < alerts[k].previous /\ alerts[k].direction = "DECREASED"
    /\ \E k \in DOMAIN alerts :
           alerts[k].current = alerts[k].previous /\ alerts[k].direction = "DECREASED"

C25_DetectorOwnsState ==
    [][/\ previous_data' # previous_data => (op' = "check_alerts" /\ enabled)
       /\ op' \in {"send_alerts", "generate_text_report"}
              => previous_data' = previous_data
       /\ <<enabled, price_threshold, tvl_threshold, apy_threshold>>'
              = <<enabled, price_threshold, tvl_threshold, apy_threshold>>]_vars

\* a text report of two snapshots, rendered while the detector holds baselines
\* that differ from them
C25_Witness ==
    /\ op = "generate_text_report"
    /\ raised = "none"
    /\ Len(report) = 2
    /\ previous_data # <<>>
    /\ \A i \in DOMAIN current_data :
           /\ current_data[i].name \in DOMAIN previous_data
           /\ previous_data[current_data[i].name] # current_data[i]

\* C26 (last-seen baseline): after any sequence of enabled check_alerts calls on
\* well-formed batches, the keys of previous_data are the identifiers that came
\* in any batch so far, each key maps to its snapshot in the last batch that
\* had it, and the alerts of a call report the values of those snapshots.
C26_LastSeenBaseline ==
    /\ DOMAIN previous_data = DOMAIN last_seen
    /\ \A n \in DOMAIN previous_data : previous_data[n] = last_seen[n]
    /\ Returned => AlertsFromPrecedingPass

\* a protocol that was in none of the last two batches, while the other
\* protocol was and changed: it keeps the snapshot of its last batch
C26_Witness ==
    /\ Returned
    /\ \E n \in DOMAIN missed :
           /\ missed[n] = MaxMissed
           /\ n \notin Names(current_data)
           /\ previous_data[n] = last_seen[n]
           /\ Truthy(previous_data[n].price)
    /\ \E i \in DOMAIN current_data :
           /\ HadBaseline(i)
           /\ entry_data[current_data[i].name] # current_data[i]

----------------------------------------------------------------------------
(* Properties of send_alerts *)

\* C5 (partial channel isolation), as claimed: for a non-empty batch, send_alerts
\* never raises, every enabled channel is attempted whatever happens on the
\* others, and with the console delivering, the webhook failing and no e-mail
\* channel the call returns the number of alerts.
C5_ChannelIsolation ==
    (op = "send_alerts" /\ alerts # <<>>) =>
        /\ raised = "none"
        /\ alerts_config.console => channel.console # "NotAttempted"
        /\ (alerts_config.discord_webhook /\ discord_webhook_url)
               => channel.discord # "NotAttempted"
        /\ (alerts_config.email /\ email_to) => channel.email # "NotAttempted"
        /\ (/\ channel.console = "Delivered" /\ channel.discord = "Failed"
            /\ channel.email = "NotAttempted") => count = Len(alerts)

\* the last operation was a send_alerts call that returned a count
SendReturned == op = "send_alerts" /\ raised = "none" /\ ~Blocked

DeliveredChannels == {c \in DOMAIN channel : channel[c] = "Delivered"}

EmailCredentials == email_to /\ email_from /\ smtp_username /\ smtp_password

\* C13 (delivered-count semantics): a send_alerts call for N >= 1 alerts returns
\* N times the number of channels that delivered the whole batch; a channel
\* that failed or was not attempted adds nothing, a webhook channel with a
\* failed post adds nothing, and a batch delivered by two channels counts twice.
C13_DeliveredCount ==
    (SendReturned /\ alerts # <<>>) =>
        /\ count = Len(alerts) * Cardinality(DeliveredChannels)
        /\ channel.discord = "Delivered" => discord_posts = Len(alerts)
        /\ \A c \in DOMAIN channel :
               channel[c] # "Delivered" =>
                   count = Len(alerts) * Cardinality(DeliveredChannels \ {c})

\* two alerts, the console and the e-mail deliver them, the second webhook post
\* fails: the call returns 4
C13_Witness ==
    /\ SendReturned
    /\ Len(alerts) = 2
    /\ channel = [console |-> "Delivered", discord |-> "Failed", email |-> "Delivered"]
    /\ discord_posts = 2
    /\ count = 4

\* C14 (webhook posts are independent), as claimed: whenever the webhook channel
\* is attempted, one post is made for every alert of the batch, also for the
\* alerts after one whose post failed.
C14_AllPostsMade ==
    (op = "send_alerts" /\ channel.discord # "NotAttempted") =>
        discord_posts = Len(alerts)

\* C15 (channel enablement): for a non-empty batch the console is written exactly
\* when alerts.console is set, a webhook post is made only with the flag and a
\* URL, an SMTP session is opened only with the flag and all four credentials;
\* a channel switched on without its endpoint or credentials is skipped, is not
\* counted, and is not what makes the call raise.
C15_ChannelEnablement ==
    (op = "send_alerts" /\ alerts # <<>>) =>
        /\ channel.console # "NotAttempted" <=> alerts_config.console
        /\ discord_posts > 0 => (alerts_config.discord_webhook /\ discord_webhook_url)
        /\ channel.email \in {"InProgress", "Delivered", "Failed"}
               => (alerts_config.email /\ EmailCredentials)
        /\ ~(alerts_config.discord_webhook /\ discord_webhook_url)
               => (channel.discord = "NotAttempted" /\ discord_posts = 0)
        /\ ~(alerts_config.email /\ EmailCredentials)
               => channel.email \in {"NotAttempted", "NotConfigured"}
        /\ raised # "none" => channel.console = "Failed"
        /\ SendReturned => count = Len(alerts) * Cardinality(DeliveredChannels)

\* the webhook is switched on without a URL and the e-mail without its password:
\* only the console delivers
C15_Witness ==
    /\ SendReturned
    /\ alerts # <<>>
    /\ alerts_config.discord_webhook /\ ~discord_webhook_url
    /\ alerts_config.email /\ email_to /\ email_from /\ smtp_username /\ ~smtp_password
    /\ channel = [console |-> "Delivered", discord |-> "NotAttempted",
                  email |-> "NotConfigured"]
    /\ count = Len(alerts)

\* C16 (empty batch): send_alerts with an empty list returns 0 and touches no
\* channel, whatever the configuration.
C16_EmptyBatchNoIO ==
    (op = "send_alerts" /\ alerts = <<>>) =>
        /\ count = 0
        /\ raised = "none"
        /\ channel = NoChannel
        /\ discord_posts = 0
        /\ attempts = NoAttempts

\* an empty list sent with every channel switched on and configured
C16_Witness ==
    /\ op = "send_alerts"
    /\ alerts = <<>>
    /\ alerts_config.console /\ alerts_config.discord_webhook /\ alerts_config.email
    /\ discord_webhook_url /\ EmailCredentials
    /\ count = 0

\* C17 (no retry in the dispatcher): within one send_alerts call every channel is
\* called at most once, a channel is in a state other than NotAttempted exactly
\* when it was called, and the webhook makes at most one post per alert.
C17_AttemptedAtMostOnce ==
    op = "send_alerts" =>
        /\ \A c \in DOMAIN channel :
               /\ attempts[c] <= 1
               /\ attempts[c] = 0 <=> channel[c] = "NotAttempted"
        /\ discord_posts <= Len(alerts)

\* the webhook and the e-mail both failed, and each was called once
C17_Witness ==
    /\ op = "send_alerts"
    /\ channel.discord = "Failed" /\ channel.email = "Failed"
    /\ attempts = [console |-> 1, discord |-> 1, email |-> 1]
    /\ discord_posts = 1 /\ Len(alerts) = 2

\* C19 (bounded channel I/O), as claimed: every channel attempt that send_alerts
\* started has ended, in Delivered or Failed, also when the remote end never
\* answers.
C19_ChannelIOEnds ==
    op = "send_alerts" => \A c \in DOMAIN channel : channel[c] # "InProgress"

\* C29 (range of the delivered count): a send_alerts call that returns for
\* N >= 1 alerts returns 0, N, 2N or 3N, 0 when the three channel switches are
\* off, at least N when the console switch is on, and the same whether or not
\* the detector is enabled.
C29_CountRange ==
    (SendReturned /\ alerts # <<>>) =>
        /\ count \in { k * Len(alerts) : k \in 0..3 }
        /\ (~alerts_config.console /\ ~alerts_config.discord_webhook
                /\ ~alerts_config.email) => count = 0
        /\ alerts_config.console => count >= Len(alerts)
        /\ count = Len(alerts) * Cardinality(DeliveredChannels)

\* a disabled detector whose three channels deliver two alerts: 3N
C29_Witness ==
    /\ SendReturned
    /\ ~enabled
    /\ Len(alerts) = 2
    /\ count = 6

----------------------------------------------------------------------------
(* Properties of the fetch layer *)

\* C18 (a single retry after a 429), as claimed: one _make_request call of the
\* CoinGecko client issues at most two HTTP requests and then returns, also when
\* every request is answered with 429.
C18_AtMostTwoRequests ==
    /\ cg_requests <= 2
    /\ fetch_pc # "in_request"

\* the snapshot the last pass of a fetch loop produced
LastSnapshot == IF monitor_i > 0 THEN all_data[monitor_i] ELSE results[fetch_i]

\* C21 (a failed request leaves the metric absent, with an error), as claimed:
\* when the tvl (price) request of a protocol failed upstream, the snapshot
\* produced for it has tvl (price) None and an error description.
C21_FailureAbsentWithError ==
    (monitor_i > 0 \/ (fetch_i > 0 /\ Len(results) = fetch_i)) =>
        /\ failed.tvl => (LastSnapshot.tvl = None /\ LastSnapshot.error # None)
        /\ failed.price => (LastSnapshot.price = None /\ LastSnapshot.error # None)

\* C27 (rate-limit spacing): any two consecutive session.get calls of a client
\* are at least min_request_interval apart, whatever the earlier one met.
C27_RequestsSpaced ==
    spacing # None => spacing[1] >= min_request_interval

\* every protocol configuration of the list has its 'name' key
AllNamed == \A i \in DOMAIN protocols : protocols[i].name # NoName

\* C20 (one snapshot per protocol): on a list of protocol configurations that all
\* have a name, fetch_all_protocols does not raise, has appended one snapshot for
\* each protocol it has gone through, in the order of the list and under the
\* protocol's name, and returns a list as long as the input, whatever the
\* upstream answered.
C20_OneSnapshotPerProtocol ==
    AllNamed =>
        /\ fetch_pc # "raised"
        /\ Len(results) = fetch_i
        /\ \A i \in DOMAIN results : results[i].name = protocols[i].name
        /\ fetch_pc = "returned" => Len(results) = Len(protocols)

\* a returned call on two protocols: for the first every upstream call failed
\* or raised, for the second fetch_protocol_data itself raised
C20_Witness ==
    /\ fetch_pc = "returned"
    /\ Len(protocols) = 2
    /\ Len(results) = 2
    /\ results[1].keys = "all"
    /\ results[1].tvl = None /\ results[1].price = None /\ results[1].apy = None
    /\ results[1].error # None
    /\ results[2].keys = "name, error"
    /\ results[2].name = protocols[2].name

====
